---- MODULE Spec2Model ----
(***************************************************************************)
(* Model of src/api/chat_completion.rs: the chat-completion request        *)
(* builder, the serde wire mapping of requests and messages, the decoding  *)
(* of responses, and one request/response cycle.                           *)
(***************************************************************************)
EXTENDS Integers, Sequences, FiniteSets, TLC

VARIABLES
    builder,    \* ChatCompletionRequestBuilder: every field an Option of the field's type
    assigned,   \* history: field name -> value last assigned by a setter or a field assignment
    calls,      \* number of setter calls made on the builder
    pc,         \* position in the request/response cycle
    req,        \* Option<ChatCompletionRequest>: the built request
    body,       \* Option<JSON>: the encoded request body
    sends,      \* number of invocations of the transport's send
    raw,        \* Option<JSON>: the raw response the transport returned
    result,     \* what the caller receives at the end of the cycle
    msgs,       \* a message sequence under construction (message codec)
    ctorArgs,   \* history: how each message of msgs was made (constructor, arguments)
    wire,       \* Option<JSON>: the encoding of msgs
    am,         \* an AssistantMessage (assistant round trip)
    amWire,     \* Option<JSON>: the encoding of am
    amBack      \* Option<decode result>: the decoding of amWire

vars == <<builder, assigned, calls, pc, req, body, sends, raw, result,
          msgs, ctorArgs, wire, am, amWire, amBack>>

cycleVars == <<builder, assigned, calls, pc, req, body, sends, raw, result>>
messageVars == <<msgs, ctorArgs, wire>>
roundTripVars == <<am, amWire, amBack>>

-----------------------------------------------------------------------------
(* Bounds of the model. *)

MaxCalls == 2
MaxMsgs == 2
MaxToolCalls == 2

-----------------------------------------------------------------------------
(* Option<T>: None is the empty sequence, Some(x) the one-element sequence. *)

None == <<>>
Some(x) == <<x>>
IsSome(o) == o # <<>>
Unwrap(o) == o[1]

(* serde_json::Value, tagged by its JSON type. An object is a function    *)
(* from its keys to values; an array is a sequence.                       *)

JStr(s) == [t |-> "string", v |-> s]
JNum(i) == [t |-> "number", v |-> i]
JBool(b) == [t |-> "bool", v |-> b]
JArr(a) == [t |-> "array", v |-> a]
JObj(o) == [t |-> "object", v |-> o]
JNull == [t |-> "null", v |-> "null"]

-----------------------------------------------------------------------------
(* Enumerations and their wire strings. *)

ChatCompleteModel == {"GPT3Turbo", "GPT3TurboInstruct", "GPT4Turbo", "GPT4TurboVersion"}

DefaultModel == "GPT3Turbo"

(* The wire strings rename_all = "snake_case" gives without the per-variant renames. *)
ModelWire_unrenamed(m) ==
    CASE m = "GPT3Turbo" -> "g_p_t3_turbo"
      [] m = "GPT3TurboInstruct" -> "g_p_t3_turbo_instruct"
      [] m = "GPT4Turbo" -> "g_p_t4_turbo"
      [] m = "GPT4TurboVersion" -> "g_p_t4_turbo_version"

ModelWire(m) ==
    CASE m = "GPT3Turbo" -> "gpt-3.5-turbo-1106"
      [] m = "GPT3TurboInstruct" -> "gpt-3.5-turbo-instruct"
      [] m = "GPT4Turbo" -> "gpt-4-1106-preview"
      [] m = "GPT4TurboVersion" -> "gpt-4-1106-vision-preview"

ToolTypeWire(tt) == CASE tt = "Function" -> "function"

ChatResponseFormatWire(f) ==
    CASE f = "Text" -> "text"
      [] f = "Json" -> "json"

(* Deserialize of the unit-variant enums: wire string -> variant. *)

FinishReasonOfWire ==
    [stop |-> "Stop", length |-> "Length", content_filter |-> "ContentFilter",
     tool_calls |-> "ToolCalls"]

ModelOfWire ==
    [s \in {ModelWire(m) : m \in ChatCompleteModel} |->
        CHOOSE m \in ChatCompleteModel : ModelWire(m) = s]

ToolTypeOfWire == [function |-> "Function"]

-----------------------------------------------------------------------------
(* Messages. *)

(* get_name without the emptiness test. *)
get_name_keeping_empty(name) == Some(name)

get_name(name) == IF name # "" THEN Some(name) ELSE None

new_system(content, name) ==
    [role |-> "System", content |-> content, name |-> get_name(name)]

new_user(content, name) ==
    [role |-> "User", content |-> content, name |-> get_name(name)]

FunctionCall(name, arguments) == [name |-> name, arguments |-> arguments]

ToolCalls(id, function) == [id |-> id, type |-> "Function", function |-> function]

AssistantMessage(content, name, tool_calls) ==
    [content |-> content, name |-> name, tool_calls |-> tool_calls]

AssistantVariant(m) ==
    [role |-> "Assistant", content |-> m.content, name |-> m.name,
     tool_calls |-> m.tool_calls]

ToolMessage(content, tool_call_id) ==
    [role |-> "Tool", content |-> content, tool_call_id |-> tool_call_id]

(* Serialize of FunctionCall, ToolCalls and AssistantMessage. *)

EncodeFunctionCall(f) ==
    JObj([name |-> JStr(f.name), arguments |-> JStr(f.arguments)])

EncodeToolCalls(c) ==
    JObj([id |-> JStr(c.id), type |-> JStr(ToolTypeWire(c.type)),
          function |-> EncodeFunctionCall(c.function)])

AssistantFields(m) ==
    LET keys == {"content"}
                \cup (IF IsSome(m.name) THEN {"name"} ELSE {})
                \cup (IF m.tool_calls # <<>> THEN {"tool_calls"} ELSE {})
    IN [k \in keys |->
          CASE k = "content" -> JStr(m.content)
            [] k = "name" -> JStr(Unwrap(m.name))
            [] k = "tool_calls" -> JArr([i \in 1..Len(m.tool_calls) |-> EncodeToolCalls(m.tool_calls[i])])]

EncodeAssistantMessage(m) == JObj(AssistantFields(m))

(* Serialize of SystemMessage and UserMessage: name is skipped when None. *)
NamedFields(m) ==
    LET keys == {"content"} \cup (IF IsSome(m.name) THEN {"name"} ELSE {})
    IN [k \in keys |->
          CASE k = "content" -> JStr(m.content)
            [] k = "name" -> JStr(Unwrap(m.name))]

ToolMessageFields(m) ==
    [content |-> JStr(m.content), tool_call_id |-> JStr(m.tool_call_id)]

RoleWire(role) ==
    CASE role = "System" -> "system"
      [] role = "User" -> "user"
      [] role = "Assistant" -> "assistant"
      [] role = "Tool" -> "tool"

VariantFields(m) ==
    CASE m.role = "System" -> NamedFields(m)
      [] m.role = "User" -> NamedFields(m)
      [] m.role = "Assistant" -> AssistantFields(m)
      [] m.role = "Tool" -> ToolMessageFields(m)

(* The encoding serde gives without tag = "role": the variant's fields    *)
(* nested under the variant's name.                                       *)
EncodeMessage_externally_tagged(m) ==
    JObj(RoleWire(m.role) :> JObj(VariantFields(m)))

(* Serialize of ChatCompletionMessage: internally tagged, tag = "role":   *)
(* the tag is written beside the variant's own fields.                    *)
EncodeMessage(m) ==
    JObj(("role" :> JStr(RoleWire(m.role))) @@ VariantFields(m))

EncodeMessages(s) == JArr([i \in 1..Len(s) |-> EncodeMessage(s[i])])

-----------------------------------------------------------------------------
(* Tools, tool choice and response format. *)

ToolChoiceNone == [kind |-> "None"]
ToolChoiceAuto == [kind |-> "Auto"]
ToolChoiceFunction(name) == [kind |-> "Function", type |-> "Function", name |-> name]

(* ToolChoice as the doc comment of tool_choice writes it:                 *)
(* {"type": "function", "function": {"name": ..}}.                        *)
EncodeToolChoice_documented(c) ==
    CASE c.kind = "None" -> JStr("none")
      [] c.kind = "Auto" -> JStr("auto")
      [] c.kind = "Function" ->
            JObj([type |-> JStr(ToolTypeWire(c.type)),
                  function |-> JObj([name |-> JStr(c.name)])])

(* Serialize of ToolChoice: externally tagged, rename_all = "snake_case". *)
EncodeToolChoice(c) ==
    CASE c.kind = "None" -> JStr("none")
      [] c.kind = "Auto" -> JStr("auto")
      [] c.kind = "Function" ->
            JObj([function |-> JObj([type |-> JStr(ToolTypeWire(c.type)),
                                     name |-> JStr(c.name)])])

FunctionInfo(description, name, parameters) ==
    [description |-> description, name |-> name, parameters |-> parameters]

Tool(function) == [type |-> "function", function |-> function]

EncodeFunctionInfo(f) ==
    JObj([description |-> JStr(f.description), name |-> JStr(f.name),
          parameters |-> f.parameters])

EncodeTool(tl) ==
    JObj([type |-> JStr(tl.type), function |-> EncodeFunctionInfo(tl.function)])

ChatResponseFormatObject(f) == [type |-> f]

EncodeResponseFormat(o) == JObj([type |-> JStr(ChatResponseFormatWire(o.type))])

-----------------------------------------------------------------------------
(* ChatCompletionRequest and its derived builder. *)

OptionFields ==
    {"frequency_penalty", "max_tokens", "n", "presence_penalty", "response_format",
     "seed", "stop", "stream", "temperature", "top_p", "tool_choice", "user"}

Fields == {"messages", "model", "tools"} \cup OptionFields

(* ChatCompletionRequestBuilder::default(): no field initialised. *)
EmptyBuilder == [f \in Fields |-> None]

(* #[builder(default)]: Default::default() of the field's type. *)
FieldDefault(f) ==
    CASE f = "model" -> DefaultModel
      [] f = "tools" -> <<>>
      [] OTHER -> None

Ok(x) == [ok |-> TRUE, value |-> x]
BuildError(field) ==
    [ok |-> FALSE, error |-> [kind |-> "UninitializedField", field |-> field]]

(* build() as it would be with a non-emptiness check on messages. *)
build_rejecting_empty(b) ==
    IF ~IsSome(b.messages) \/ b.messages = Some(<<>>)
    THEN [ok |-> FALSE, error |-> [kind |-> "UninitializedField", field |-> "messages"]]
    ELSE [ok |-> TRUE,
          value |-> [f \in Fields |-> IF IsSome(b[f]) THEN Unwrap(b[f]) ELSE FieldDefault(f)]]

(* ChatCompletionRequestBuilder::build(): messages has no default, every  *)
(* other field falls back to its default.                                 *)
build(b) ==
    IF ~IsSome(b.messages)
    THEN BuildError("messages")
    ELSE Ok([f \in Fields |-> IF IsSome(b[f]) THEN Unwrap(b[f]) ELSE FieldDefault(f)])

(* The value a setter stores: setter(strip_option) wraps its argument in Some. *)
Stored(f, v) == IF f \in OptionFields THEN Some(Some(v)) ELSE Some(v)

EncodeField(k, r) ==
    CASE k = "messages" -> EncodeMessages(r.messages)
      [] k = "model" -> JStr(ModelWire(r.model))
      [] k = "frequency_penalty" -> JNum(Unwrap(r.frequency_penalty))
      [] k = "max_tokens" -> JNum(Unwrap(r.max_tokens))
      [] k = "n" -> JNum(Unwrap(r.n))
      [] k = "presence_penalty" -> JNum(Unwrap(r.presence_penalty))
      [] k = "response_format" -> EncodeResponseFormat(Unwrap(r.response_format))
      [] k = "seed" -> JNum(Unwrap(r.seed))
      [] k = "stop" -> JStr(Unwrap(r.stop))
      [] k = "stream" -> JBool(Unwrap(r.stream))
      [] k = "temperature" -> JNum(Unwrap(r.temperature))
      [] k = "top_p" -> JNum(Unwrap(r.top_p))
      [] k = "tools" -> JArr([i \in 1..Len(r.tools) |-> EncodeTool(r.tools[i])])
      [] k = "tool_choice" -> EncodeToolChoice(Unwrap(r.tool_choice))
      [] k = "user" -> JStr(Unwrap(r.user))

(* The fields written if messages, too, were skipped when empty. *)
SerializedFields_skipping_empty_messages(r) ==
    (IF r.messages # <<>> THEN {"messages"} ELSE {})
    \cup {"model"}
    \cup {f \in OptionFields : IsSome(r[f])}
    \cup (IF r.tools # <<>> THEN {"tools"} ELSE {})

(* The fields Serialize writes: skip_serializing_if = "Option::is_none" on *)
(* the optional fields, "Vec::is_empty" on tools, none on messages, model. *)
SerializedFields(r) ==
    {"messages", "model"}
    \cup {f \in OptionFields : IsSome(r[f])}
    \cup (IF r.tools # <<>> THEN {"tools"} ELSE {})

(* Serialize of ChatCompletionRequest. *)
EncodeRequest(r) == JObj([k \in SerializedFields(r) |-> EncodeField(k, r)])

-----------------------------------------------------------------------------
(* Inputs of the setters. *)

SystemQBot == new_system("S", "Q-bot")
UserZheng == new_user("U", "zheng")
UserAnonymous == new_user("U", "")
AssistantCall ==
    AssistantVariant(AssistantMessage("", None,
        <<ToolCalls("call_1", FunctionCall("my_function", "{}"))>>))
ToolReply == ToolMessage("42", "call_1")

MessageInputs ==
    { <<>>, <<SystemQBot, UserZheng>>, <<UserAnonymous>>, <<UserZheng, AssistantCall, ToolReply>> }

I32Inputs == {-3, 1}
UsizeInputs == {0, 7}
StringInputs == {"", "end"}
ResponseFormatInputs == {ChatResponseFormatObject("Text"), ChatResponseFormatObject("Json")}
MyFunctionTool ==
    Tool(FunctionInfo("does it", "my_function",
                      JObj([type |-> JStr("object")])))
ToolsInputs == { <<>>, <<MyFunctionTool>> }
ToolChoiceInputs ==
    {ToolChoiceNone, ToolChoiceAuto, ToolChoiceFunction("my_function"),
     ToolChoiceFunction("other")}

-----------------------------------------------------------------------------
(* Deserialize. A decoder yields Ok(value) or DecodeFail; serde_json      *)
(* reports the first offending entry in document order, which an          *)
(* unordered object does not fix, so the error carries no detail.         *)

DecodeFail == [ok |-> FALSE, error |-> [kind |-> "Decode"]]

SeqIndex(names, k) == CHOOSE i \in 1..Len(names) : names[i] = k
SeqRange(names) == {names[i] : i \in 1..Len(names)}

(* deserialize_struct as it would be under #[serde(deny_unknown_fields)]. *)
StructView_denying_unknown(j, names) ==
    CASE j.t = "object" /\ DOMAIN j.v \subseteq SeqRange(names) ->
            [ok |-> TRUE, value |-> j.v]
      [] j.t = "array" /\ Len(j.v) = Len(names) ->
            [ok |-> TRUE, value |-> [k \in SeqRange(names) |-> j.v[SeqIndex(names, k)]]]
      [] OTHER -> [ok |-> FALSE, error |-> [kind |-> "Decode"]]

(* deserialize_struct: a struct is read from an object (visit_map,        *)
(* unknown keys ignored) or from an array holding exactly its fields in   *)
(* declaration order (visit_seq).                                         *)
StructView(j, names) ==
    CASE j.t = "object" ->
            Ok([k \in (DOMAIN j.v) \cap SeqRange(names) |-> j.v[k]])
      [] j.t = "array" /\ Len(j.v) = Len(names) ->
            Ok([k \in SeqRange(names) |-> j.v[SeqIndex(names, k)]])
      [] OTHER -> DecodeFail

(* The value under key k, or what serde reads for a key that is missing. *)
Absent == [t |-> "absent", v |-> "absent"]
Field(view, k) == IF k \in DOMAIN view THEN view[k] ELSE Absent

DecodeString(j) == IF j.t = "string" THEN Ok(j.v) ELSE DecodeFail

DecodeUsize(j) == IF j.t = "number" /\ j.v >= 0 THEN Ok(j.v) ELSE DecodeFail

(* Option<String>: a missing key and null are None. *)
DecodeOptionString(j) ==
    CASE j.t \in {"absent", "null"} -> Ok(None)
      [] j.t = "string" -> Ok(Some(j.v))
      [] OTHER -> DecodeFail

(* deserialize_enum of a unit-variant enum: the variant's wire string, or *)
(* an object with that single key and a null value.                       *)
DecodeUnitEnum(j, ofWire) ==
    CASE j.t = "string" /\ j.v \in DOMAIN ofWire -> Ok(ofWire[j.v])
      [] j.t = "object" /\ (\E k \in DOMAIN j.v :
                               /\ DOMAIN j.v = {k}
                               /\ j.v[k].t = "null"
                               /\ k \in DOMAIN ofWire) ->
            Ok(ofWire[CHOOSE k \in DOMAIN j.v : TRUE])
      [] OTHER -> DecodeFail

DecodeModel(j) == DecodeUnitEnum(j, ModelOfWire)
DecodeFinishReason(j) == DecodeUnitEnum(j, FinishReasonOfWire)
DecodeToolType(j) == DecodeUnitEnum(j, ToolTypeOfWire)

(* The struct built from its decoded fields, if every one decoded.        *)
Assemble(fs) ==
    IF \A k \in DOMAIN fs : fs[k].ok
    THEN Ok([k \in DOMAIN fs |-> fs[k].value])
    ELSE DecodeFail

DecodeFunctionCall(j) ==
    LET view == StructView(j, <<"name", "arguments">>)
    IN IF ~view.ok THEN DecodeFail
       ELSE Assemble([name |-> DecodeString(Field(view.value, "name")),
                      arguments |-> DecodeString(Field(view.value, "arguments"))])

DecodeToolCalls(j) ==
    LET view == StructView(j, <<"id", "type", "function">>)
    IN IF ~view.ok THEN DecodeFail
       ELSE Assemble([id |-> DecodeString(Field(view.value, "id")),
                      type |-> DecodeToolType(Field(view.value, "type")),
                      function |-> DecodeFunctionCall(Field(view.value, "function"))])

(* Vec<ToolCalls>: an array whose every element decodes. *)
DecodeToolCallsSeq(j) ==
    IF j.t = "array" /\ \A i \in 1..Len(j.v) : DecodeToolCalls(j.v[i]).ok
    THEN Ok([i \in 1..Len(j.v) |-> DecodeToolCalls(j.v[i]).value])
    ELSE DecodeFail

DecodeAssistantMessage(j) ==
    LET view == StructView(j, <<"content", "name", "tool_calls">>)
    IN IF ~view.ok THEN DecodeFail
       ELSE Assemble([content |-> DecodeString(Field(view.value, "content")),
                      name |-> DecodeOptionString(Field(view.value, "name")),
                      tool_calls |-> DecodeToolCallsSeq(Field(view.value, "tool_calls"))])

DecodeUsage(j) ==
    LET view == StructView(j, <<"completion_tokens", "prompt_tokens", "total_tokens">>)
    IN IF ~view.ok THEN DecodeFail
       ELSE Assemble(
              [completion_tokens |-> DecodeUsize(Field(view.value, "completion_tokens")),
               prompt_tokens |-> DecodeUsize(Field(view.value, "prompt_tokens")),
               total_tokens |-> DecodeUsize(Field(view.value, "total_tokens"))])

DecodeChoice(j) ==
    LET view == StructView(j, <<"finish_reason", "index", "message">>)
    IN IF ~view.ok THEN DecodeFail
       ELSE Assemble(
              [finish_reason |-> DecodeFinishReason(Field(view.value, "finish_reason")),
               index |-> DecodeUsize(Field(view.value, "index")),
               message |-> DecodeAssistantMessage(Field(view.value, "message"))])

(* Vec<ChatCompletionChoice>: an array whose every element decodes. *)
DecodeChoices(j) ==
    IF j.t = "array" /\ \A i \in 1..Len(j.v) : DecodeChoice(j.v[i]).ok
    THEN Ok([i \in 1..Len(j.v) |-> DecodeChoice(j.v[i]).value])
    ELSE DecodeFail

ResponseFieldOrder ==
    <<"id", "choices", "created", "model", "system_fingerprint", "object", "usage">>

(* Deserialize of ChatCompletionResponse as it would be if a usage that   *)
(* does not decode were left out of the value instead of failing.         *)
DecodeResponse_partial(j) ==
    LET view == StructView(j, ResponseFieldOrder)
    IN IF ~view.ok THEN DecodeFail
       ELSE LET fs == [id |-> DecodeString(Field(view.value, "id")),
                       choices |-> DecodeChoices(Field(view.value, "choices")),
                       created |-> DecodeUsize(Field(view.value, "created")),
                       model |-> DecodeModel(Field(view.value, "model")),
                       system_fingerprint |->
                           DecodeString(Field(view.value, "system_fingerprint")),
                       object |-> DecodeString(Field(view.value, "object")),
                       usage |-> DecodeUsage(Field(view.value, "usage"))]
            IN IF \A k \in DOMAIN fs \ {"usage"} : fs[k].ok
               THEN Ok([k \in {x \in DOMAIN fs : fs[x].ok} |-> fs[k].value])
               ELSE DecodeFail

(* Deserialize of ChatCompletionResponse. *)
DecodeResponse(j) ==
    LET view == StructView(j, ResponseFieldOrder)
    IN IF ~view.ok THEN DecodeFail
       ELSE Assemble(
              [id |-> DecodeString(Field(view.value, "id")),
               choices |-> DecodeChoices(Field(view.value, "choices")),
               created |-> DecodeUsize(Field(view.value, "created")),
               model |-> DecodeModel(Field(view.value, "model")),
               system_fingerprint |-> DecodeString(Field(view.value, "system_fingerprint")),
               object |-> DecodeString(Field(view.value, "object")),
               usage |-> DecodeUsage(Field(view.value, "usage"))])

-----------------------------------------------------------------------------
(* Raw responses the transport may hand back: a well-formed response with *)
(* one field dropped or replaced, any shape of choices, and possibly a    *)
(* key the response type does not declare.                                *)

UsageWire ==
    JObj([completion_tokens |-> JNum(9), prompt_tokens |-> JNum(5),
          total_tokens |-> JNum(14)])

MessageWire == JObj([content |-> JStr("hi"), tool_calls |-> JArr(<<>>)])
MessageWireNoToolCalls == JObj([content |-> JStr("hi")])
MessageWireWithCall ==
    JObj([content |-> JStr(""),
          tool_calls |-> JArr(<<EncodeToolCalls(
                                  ToolCalls("call_1", FunctionCall("my_function", "{}")))>>)])

ChoiceWire(finish, index, message) ==
    JObj([k \in {"index", "message"} \cup (IF IsSome(finish) THEN {"finish_reason"} ELSE {}) |->
            CASE k = "index" -> JNum(index)
              [] k = "message" -> message
              [] k = "finish_reason" -> JStr(Unwrap(finish))])

(* None: the response has no choices key. *)
ChoicesWires ==
    { None,
      Some(JArr(<<>>)),
      Some(JArr(<<ChoiceWire(Some("stop"), 0, MessageWire)>>)),
      Some(JArr(<<ChoiceWire(None, 0, MessageWire)>>)),
      Some(JArr(<<ChoiceWire(Some("stop"), 0, MessageWireNoToolCalls)>>)),
      Some(JArr(<<ChoiceWire(Some("tool_calls"), 0, MessageWireWithCall),
                  ChoiceWire(Some("length"), 1, MessageWire)>>)),
      Some(JArr(<<ChoiceWire(Some("eos"), 0, MessageWire)>>)),
      Some(JStr("none")) }

ScalarWires ==
    [id |-> JStr("chatcmpl-1"), created |-> JNum(1700), model |-> JStr("gpt-3.5-turbo-1106"),
     system_fingerprint |-> JStr("fp_1"), object |-> JStr("chat.completion"),
     usage |-> UsageWire]

OtherWires(f) ==
    CASE f = "id" -> {JNum(1), JNull}
      [] f = "created" -> {JStr("now"), JNum(-1)}
      [] f = "model" -> {JStr("gpt-4o"), JNum(4), JStr("gpt-4-1106-preview"),
                         JObj("gpt-4-1106-preview" :> JNull)}
      [] f = "system_fingerprint" -> {JNull}
      [] f = "object" -> {JNum(0), JStr("list")}
      [] f = "usage" -> {JStr("none"),
                         JObj([completion_tokens |-> JNum(9), prompt_tokens |-> JNum(5)]),
                         JObj([completion_tokens |-> JNum(9), prompt_tokens |-> JNum(5),
                               total_tokens |-> JStr("14")]),
                         JArr(<<JNum(9), JNum(5), JNum(14)>>),
                         JArr(<<JNum(9), JNum(5)>>)}

Changes ==
    {[kind |-> "keep"]}
    \cup {[kind |-> "drop", field |-> f] : f \in DOMAIN ScalarWires}
    \cup UNION {{[kind |-> "replace", field |-> f, value |-> v] : v \in OtherWires(f)} :
                f \in DOMAIN ScalarWires}

ResponseWire(choices, change, extra) ==
    LET keys == (DOMAIN ScalarWires \ (IF change.kind = "drop" THEN {change.field} ELSE {}))
                \cup (IF IsSome(choices) THEN {"choices"} ELSE {})
                \cup (IF extra THEN {"service_tier"} ELSE {})
    IN JObj([k \in keys |->
               CASE k = "choices" -> Unwrap(choices)
                 [] k = "service_tier" -> JStr("default")
                 [] change.kind = "replace" /\ k = change.field -> change.value
                 [] OTHER -> ScalarWires[k]])

Responses ==
    {ResponseWire(c, ch, x) : c \in ChoicesWires, ch \in Changes, x \in BOOLEAN}

TransportErrors == {"timeout", "connection refused"}

TransportError(e) == [ok |-> FALSE, error |-> [kind |-> "Transport", detail |-> e]]

-----------------------------------------------------------------------------
(* One request/response cycle. *)

NoAssignments == [f \in Fields |-> None]
IdleAssistant == AssistantMessage("", None, <<>>)

Init ==
    /\ builder = Some(EmptyBuilder)
    /\ assigned = NoAssignments
    /\ calls = 0
    /\ pc = "building"
    /\ req = None
    /\ body = None
    /\ sends = 0
    /\ raw = None
    /\ result = None
    /\ msgs = <<>>
    /\ ctorArgs = <<>>
    /\ wire = None
    /\ am = IdleAssistant
    /\ amWire = None
    /\ amBack = None

(* A setter of the derived builder: stores its argument in the builder.   *)
SetField(f, v) ==
    /\ pc = "building"
    /\ calls < MaxCalls
    /\ builder' = Some([Unwrap(builder) EXCEPT ![f] = Stored(f, v)])
    /\ assigned' = [assigned EXCEPT ![f] = Some(v)]
    /\ calls' = calls + 1
    /\ UNCHANGED <<pc, req, body, sends, raw, result, messageVars, roundTripVars>>

set_messages == \E v \in MessageInputs : SetField("messages", v)
set_model == \E v \in ChatCompleteModel : SetField("model", v)
set_frequency_penalty == \E v \in I32Inputs : SetField("frequency_penalty", v)
set_max_tokens == \E v \in UsizeInputs : SetField("max_tokens", v)
set_n == \E v \in UsizeInputs : SetField("n", v)
set_presence_penalty == \E v \in UsizeInputs : SetField("presence_penalty", v)
set_response_format == \E v \in ResponseFormatInputs : SetField("response_format", v)
set_seed == \E v \in UsizeInputs : SetField("seed", v)
set_stop == \E v \in StringInputs : SetField("stop", v)
set_stream == \E v \in BOOLEAN : SetField("stream", v)
set_temperature == \E v \in I32Inputs : SetField("temperature", v)
set_top_p == \E v \in I32Inputs : SetField("top_p", v)
set_tools == \E v \in ToolsInputs : SetField("tools", v)
set_tool_choice == \E v \in ToolChoiceInputs : SetField("tool_choice", v)
set_user == \E v \in StringInputs : SetField("user", v)

(* .build(): the request, or the error the caller receives. *)
Build ==
    /\ pc = "building"
    /\ LET r == build(Unwrap(builder))
       IN IF r.ok
          THEN pc' = "built" /\ req' = Some(r.value) /\ result' = None
          ELSE pc' = "build_error" /\ req' = None /\ result' = Some(r)
    /\ UNCHANGED <<builder, assigned, calls, body, sends, raw, messageVars, roundTripVars>>

(* req.tool_choice = Some(..): a field of the built request is overwritten. *)
assign_tool_choice ==
    /\ pc = "built"
    /\ \E v \in ToolChoiceInputs :
         /\ req' = Some([Unwrap(req) EXCEPT !.tool_choice = Some(v)])
         /\ assigned' = [assigned EXCEPT !.tool_choice = Some(v)]
    /\ UNCHANGED <<builder, calls, pc, body, sends, raw, result, messageVars, roundTripVars>>

(* into_request: the request becomes the JSON body of one POST. *)
into_request ==
    /\ pc = "built"
    /\ body' = Some(EncodeRequest(Unwrap(req)))
    /\ pc' = "encoded"
    /\ UNCHANGED <<builder, assigned, calls, req, sends, raw, result, messageVars, roundTripVars>>

(* The transport takes the request: the builder, the request and its body *)
(* are consumed, and with them the record of their assignments.           *)
Consumed ==
    /\ builder' = None
    /\ assigned' = NoAssignments
    /\ calls' = 0
    /\ req' = None
    /\ body' = None

send_ok ==
    /\ pc = "encoded"
    /\ sends' = sends + 1
    /\ \E r \in Responses : raw' = Some(r)
    /\ pc' = "sent"
    /\ Consumed
    /\ UNCHANGED <<result, messageVars, roundTripVars>>

send_error ==
    /\ pc = "encoded"
    /\ sends' = sends + 1
    /\ \E e \in TransportErrors : result' = Some(TransportError(e))
    /\ pc' = "transport_error"
    /\ Consumed
    /\ UNCHANGED <<raw, messageVars, roundTripVars>>

decode ==
    /\ pc = "sent"
    /\ LET d == DecodeResponse(Unwrap(raw))
       IN /\ result' = Some(d)
          /\ pc' = IF d.ok THEN "done" ELSE "decode_error"
    /\ UNCHANGED <<builder, assigned, calls, req, body, sends, raw, messageVars, roundTripVars>>

Next ==
    \/ set_messages
    \/ set_model
    \/ set_frequency_penalty
    \/ set_max_tokens
    \/ set_n
    \/ set_presence_penalty
    \/ set_response_format
    \/ set_seed
    \/ set_stop
    \/ set_stream
    \/ set_temperature
    \/ set_top_p
    \/ set_tools
    \/ set_tool_choice
    \/ set_user
    \/ Build
    \/ assign_tool_choice
    \/ into_request
    \/ send_ok
    \/ send_error
    \/ decode

Spec == Init /\ [][Next]_vars

-----------------------------------------------------------------------------
(* The message codec alone: a conversation is assembled from every kind   *)
(* of message and encoded.                                                *)

Contents == {"S", "U"}
Names == {"", "Q-bot", "zheng"}

CallPool ==
    {ToolCalls("call_1", FunctionCall("my_function", "{}")),
     ToolCalls("call_2", FunctionCall("lookup", "{\"q\":1}")),
     ToolCalls("call_1", FunctionCall("lookup", ""))}

RECURSIVE SeqsUpTo(_, _)
SeqsUpTo(S, k) ==
    IF k = 0 THEN {<<>>}
    ELSE LET shorter == SeqsUpTo(S, k - 1)
         IN shorter \cup {Append(s, x) : s \in shorter, x \in S}

AssistantMessages ==
    {AssistantMessage(c, nm, tc) :
        c \in {"", "hi"}, nm \in {None, Some("bot")}, tc \in SeqsUpTo(CallPool, MaxToolCalls)}

InitMessages ==
    /\ builder = None
    /\ assigned = NoAssignments
    /\ calls = 0
    /\ pc = "messages"
    /\ req = None
    /\ body = None
    /\ sends = 0
    /\ raw = None
    /\ result = None
    /\ msgs = <<>>
    /\ ctorArgs = <<>>
    /\ wire = None
    /\ am = IdleAssistant
    /\ amWire = None
    /\ amBack = None

Push(m, how) ==
    /\ wire = None
    /\ Len(msgs) < MaxMsgs
    /\ msgs' = Append(msgs, m)
    /\ ctorArgs' = Append(ctorArgs, how)
    /\ UNCHANGED <<wire, cycleVars, roundTripVars>>

Call(fn, content, name) == [fn |-> fn, content |-> content, name |-> name]
Literal == [fn |-> "literal"]

push_system ==
    \E c \in Contents, nm \in Names : Push(new_system(c, nm), Call("new_system", c, nm))
push_user ==
    \E c \in Contents, nm \in Names : Push(new_user(c, nm), Call("new_user", c, nm))
push_assistant ==
    \E m \in {a \in AssistantMessages : Len(a.tool_calls) <= 1 /\ a.content = "hi"} :
        Push(AssistantVariant(m), Literal)
push_tool == \E c \in Contents : Push(ToolMessage(c, "call_1"), Literal)

encode_messages ==
    /\ wire = None
    /\ wire' = Some(EncodeMessages(msgs))
    /\ UNCHANGED <<msgs, ctorArgs, cycleVars, roundTripVars>>

NextMessages ==
    \/ push_system
    \/ push_user
    \/ push_assistant
    \/ push_tool
    \/ encode_messages

SpecMessages == InitMessages /\ [][NextMessages]_vars

-----------------------------------------------------------------------------
(* The assistant message alone: encoded, then decoded.                    *)

InitRoundTrip ==
    /\ builder = None
    /\ assigned = NoAssignments
    /\ calls = 0
    /\ pc = "round_trip"
    /\ req = None
    /\ body = None
    /\ sends = 0
    /\ raw = None
    /\ result = None
    /\ msgs = <<>>
    /\ ctorArgs = <<>>
    /\ wire = None
    /\ am \in AssistantMessages
    /\ amWire = None
    /\ amBack = None

(* Serialize of the AssistantMessage itself. *)
encode_assistant ==
    /\ amWire = None
    /\ amWire' = Some(EncodeAssistantMessage(am))
    /\ UNCHANGED <<am, amBack, cycleVars, messageVars>>

(* Serialize of ChatCompletionMessage::Assistant, as in a request's history. *)
encode_assistant_variant ==
    /\ amWire = None
    /\ amWire' = Some(EncodeMessage(AssistantVariant(am)))
    /\ UNCHANGED <<am, amBack, cycleVars, messageVars>>

decode_assistant ==
    /\ amWire # None
    /\ amBack = None
    /\ amBack' = Some(DecodeAssistantMessage(Unwrap(amWire)))
    /\ UNCHANGED <<am, amWire, cycleVars, messageVars>>

NextRoundTrip ==
    \/ encode_assistant
    \/ encode_assistant_variant
    \/ decode_assistant

SpecRoundTrip == InitRoundTrip /\ [][NextRoundTrip]_vars

-----------------------------------------------------------------------------
(* Claims about the builder and the encoding of requests (Spec).          *)

(* The value of field f in a request built after v was last assigned to f. *)
HeldValue(f, v) == IF f \in OptionFields THEN <<v>> ELSE v

(* The documented default of a field that was never set. *)
DocumentedDefault(f) ==
    CASE f = "model" -> "GPT3Turbo"
      [] f = "tools" -> <<>>
      [] OTHER -> <<>>

MissingMessages ==
    [ok |-> FALSE, error |-> [kind |-> "UninitializedField", field |-> "messages"]]

(* C1: build() fails, with the error naming messages, exactly when the    *)
(* messages setter was never called; when messages was supplied, even     *)
(* empty, it succeeds whatever the other fields hold, every field that    *)
(* was set holds the value last given and every other one its default.    *)
C1_BuildFailsIffMessagesMissing ==
    /\ pc = "build_error" =>
          /\ assigned.messages = <<>>
          /\ req = <<>>
          /\ result = <<MissingMessages>>
    /\ pc = "built" =>
          /\ assigned.messages # <<>>
          /\ result = <<>>
          /\ Len(req) = 1
          /\ DOMAIN req[1] = Fields
          /\ \A f \in Fields :
                req[1][f] = IF assigned[f] # <<>>
                            THEN HeldValue(f, assigned[f][1])
                            ELSE DocumentedDefault(f)

(* A request was built from an empty messages sequence, an out-of-range   *)
(* temperature, or a tool choice naming a function no tool defines.       *)
C1_Witness ==
    /\ pc = "built"
    /\ assigned.messages = <<<<>>>>
    /\ assigned.tool_choice = <<ToolChoiceFunction("other")>>
    /\ assigned.tools = <<>>

(* C2: a request built with only messages set encodes to an object with   *)
(* exactly the keys messages and model, and model is "gpt-3.5-turbo-1106". *)
C2_OnlyMessagesAndDefaultModel ==
    (pc = "encoded" /\ \A f \in Fields \ {"messages"} : assigned[f] = <<>>) =>
        /\ body[1].t = "object"
        /\ DOMAIN body[1].v = {"messages", "model"}
        /\ body[1].v.model = [t |-> "string", v |-> "gpt-3.5-turbo-1106"]

C2_Witness ==
    /\ pc = "encoded"
    /\ assigned.messages = <<<<SystemQBot, UserZheng>>>>
    /\ \A f \in Fields \ {"messages"} : assigned[f] = <<>>

(* The wire value of a scalar optional field holding v. *)
ScalarOnWire(f, v) ==
    CASE f \in {"stop", "user"} -> [t |-> "string", v |-> v]
      [] f = "stream" -> [t |-> "bool", v |-> v]
      [] OTHER -> [t |-> "number", v |-> v]

ScalarFields == OptionFields \ {"response_format", "tool_choice"}

(* The object the test chat_completion_request_serialize_should_work expects. *)
ExpectedTestBody ==
    [t |-> "object", v |->
      [tool_choice |-> [t |-> "object", v |->
                         [function |-> [t |-> "object", v |->
                            [type |-> [t |-> "string", v |-> "function"],
                             name |-> [t |-> "string", v |-> "my_function"]]]]],
       model |-> [t |-> "string", v |-> "gpt-3.5-turbo-1106"],
       messages |-> [t |-> "array", v |->
          << [t |-> "object", v |-> [role |-> [t |-> "string", v |-> "system"],
                                     content |-> [t |-> "string", v |-> "S"],
                                     name |-> [t |-> "string", v |-> "Q-bot"]]],
             [t |-> "object", v |-> [role |-> [t |-> "string", v |-> "user"],
                                     content |-> [t |-> "string", v |-> "U"],
                                     name |-> [t |-> "string", v |-> "zheng"]]] >>]]]

TestScenario ==
    /\ assigned.messages = <<<<SystemQBot, UserZheng>>>>
    /\ assigned.tool_choice = <<ToolChoiceFunction("my_function")>>
    /\ \A f \in Fields \ {"messages", "tool_choice"} : assigned[f] = <<>>

-----------------------------------------------------------------------------
(* Claims about the encoding of messages (SpecMessages).                  *)

(* C5: a message made by new_system(content, name) or new_user(content,   *)
(* name) encodes with no name field when name is the empty string, with   *)
(* name equal to the given string when it is not, and with content        *)
(* unchanged.                                                             *)
C5_EmptyNameOmitted ==
    wire # <<>> =>
        \A i \in 1..Len(ctorArgs) :
            ctorArgs[i].fn \in {"new_system", "new_user"} =>
                LET o == wire[1].v[i].v
                IN /\ o.content = [t |-> "string", v |-> ctorArgs[i].content]
                   /\ ctorArgs[i].name = "" => "name" \notin DOMAIN o
                   /\ ctorArgs[i].name # "" =>
                         /\ "name" \in DOMAIN o
                         /\ o.name = [t |-> "string", v |-> ctorArgs[i].name]

(* A system message with an empty name and a user message with a name are encoded. *)
C5_Witness ==
    /\ wire # <<>>
    /\ Len(ctorArgs) = 2
    /\ ctorArgs[1] = [fn |-> "new_system", content |-> "S", name |-> ""]
    /\ ctorArgs[2] = [fn |-> "new_user", content |-> "U", name |-> "zheng"]

(* The keys of the encoding of message m beside role. *)
OwnKeys(m) ==
    CASE m.role \in {"System", "User"} ->
            {"content"} \cup (IF m.name # <<>> THEN {"name"} ELSE {})
      [] m.role = "Assistant" ->
            {"content"} \cup (IF m.name # <<>> THEN {"name"} ELSE {})
                        \cup (IF m.tool_calls # <<>> THEN {"tool_calls"} ELSE {})
      [] m.role = "Tool" -> {"content", "tool_call_id"}

RoleString(role) ==
    CASE role = "System" -> "system"
      [] role = "User" -> "user"
      [] role = "Assistant" -> "assistant"
      [] role = "Tool" -> "tool"

-----------------------------------------------------------------------------
(* Claims about the decoding of responses (Spec).                         *)

KnownModelStrings ==
    {"gpt-3.5-turbo-1106", "gpt-3.5-turbo-instruct", "gpt-4-1106-preview",
     "gpt-4-1106-vision-preview"}

IsCount(v) == v.t = "number" /\ v.v >= 0

(* The shapes the type of a required response field is read from: a      *)
(* string, a non-negative integer, a known model identifier (or serde's   *)
(* single-key form of it), the three token counts (as an object, or as    *)
(* serde's positional array).                                             *)
RightShape(f, v) ==
    CASE f \in {"id", "object"} -> v.t = "string"
      [] f = "created" -> IsCount(v)
      [] f = "model" ->
            \/ v.t = "string" /\ v.v \in KnownModelStrings
            \/ v.t = "object" /\ \E k \in KnownModelStrings :
                                     DOMAIN v.v = {k} /\ v.v[k].t = "null"
      [] f = "usage" ->
            \/ /\ v.t = "object"
               /\ {"completion_tokens", "prompt_tokens", "total_tokens"} \subseteq DOMAIN v.v
               /\ IsCount(v.v.completion_tokens)
               /\ IsCount(v.v.prompt_tokens)
               /\ IsCount(v.v.total_tokens)
            \/ /\ v.t = "array"
               /\ Len(v.v) = 3
               /\ \A i \in 1..3 : IsCount(v.v[i])

RequiredResponseFields == {"id", "created", "model", "object", "usage"}

WellFormedCall(c) ==
    /\ c.t = "object"
    /\ {"id", "type", "function"} \subseteq DOMAIN c.v
    /\ c.v.id.t = "string"
    /\ c.v.type = [t |-> "string", v |-> "function"]
    /\ c.v.function.t = "object"
    /\ {"name", "arguments"} \subseteq DOMAIN c.v.function.v
    /\ c.v.function.v.name.t = "string"
    /\ c.v.function.v.arguments.t = "string"

WellFormedChoice(c) ==
    /\ c.t = "object"
    /\ {"finish_reason", "index", "message"} \subseteq DOMAIN c.v
    /\ c.v.finish_reason.t = "string"
    /\ c.v.finish_reason.v \in {"stop", "length", "content_filter", "tool_calls"}
    /\ IsCount(c.v.index)
    /\ c.v.message.t = "object"
    /\ {"content", "tool_calls"} \subseteq DOMAIN c.v.message.v
    /\ c.v.message.v.content.t = "string"
    /\ "name" \in DOMAIN c.v.message.v => c.v.message.v.name.t \in {"string", "null"}
    /\ c.v.message.v.tool_calls.t = "array"
    /\ \A i \in 1..Len(c.v.message.v.tool_calls.v) :
          WellFormedCall(c.v.message.v.tool_calls.v[i])

(* Every field the response type declares is there, in a right shape.     *)
WellFormed(j) ==
    /\ j.t = "object"
    /\ \A f \in RequiredResponseFields : f \in DOMAIN j.v /\ RightShape(f, j.v[f])
    /\ "system_fingerprint" \in DOMAIN j.v
    /\ j.v.system_fingerprint.t = "string"
    /\ "choices" \in DOMAIN j.v
    /\ j.v.choices.t = "array"
    /\ \A i \in 1..Len(j.v.choices.v) : WellFormedChoice(j.v.choices.v[i])

Decoded == pc \in {"done", "decode_error"}

(* C8: decoding fails, and yields no response value, whenever id, created, *)
(* model, object or usage is absent or of a wrong shape (an unknown model  *)
(* string included); it succeeds on a well-formed response, whether or not *)
(* it carries keys the type does not declare or its choices are empty.     *)
C8_RequiredFieldsOrDecodeError ==
    Decoded =>
        /\ (\E f \in RequiredResponseFields :
               f \notin DOMAIN raw[1].v \/ ~RightShape(f, raw[1].v[f])) =>
              /\ pc = "decode_error"
              /\ ~result[1].ok
              /\ "value" \notin DOMAIN result[1]
        /\ WellFormed(raw[1]) =>
              /\ pc = "done"
              /\ result[1].ok
              /\ Len(result[1].value.choices) = Len(raw[1].v.choices.v)

(* A well-formed response with an undeclared key and no choices was decoded. *)
C8_Witness ==
    /\ pc = "done"
    /\ "service_tier" \in DOMAIN raw[1].v
    /\ raw[1].v.choices = [t |-> "array", v |-> <<>>]

ChoiceWithoutFinishReason ==
    [t |-> "object", v |->
       [index |-> [t |-> "number", v |-> 0],
        message |-> [t |-> "object", v |->
                       [content |-> [t |-> "string", v |-> "hi"],
                        tool_calls |-> [t |-> "array", v |-> <<>>]]]]]

(* raw is well-formed but for its choices. *)
WellFormedButChoices ==
    /\ raw[1].t = "object"
    /\ \A f \in RequiredResponseFields :
          f \in DOMAIN raw[1].v /\ RightShape(f, raw[1].v[f])
    /\ "system_fingerprint" \in DOMAIN raw[1].v
    /\ raw[1].v.system_fingerprint.t = "string"

(* C7: decoding a response in which a choice has no finish_reason succeeds *)
(* and gives that choice finish_reason = Stop; decoding a response with no *)
(* choices field succeeds and gives an empty choices sequence.             *)
C7_AbsentFinishReasonAndChoicesDefault ==
    (Decoded /\ WellFormedButChoices) =>
        /\ "choices" \notin DOMAIN raw[1].v =>
              /\ pc = "done"
              /\ result[1].ok
              /\ result[1].value.choices = <<>>
        /\ ("choices" \in DOMAIN raw[1].v
            /\ raw[1].v.choices = [t |-> "array", v |-> <<ChoiceWithoutFinishReason>>]) =>
              /\ pc = "done"
              /\ result[1].ok
              /\ result[1].value.choices[1].finish_reason = "Stop"

-----------------------------------------------------------------------------
(* Claims about the request/response cycle (Spec).                        *)

CycleOrder ==
    { <<"building", "built">>, <<"building", "build_error">>, <<"built", "encoded">>,
      <<"encoded", "sent">>, <<"encoded", "transport_error">>,
      <<"sent", "done">>, <<"sent", "decode_error">> }

AfterSend == {"sent", "transport_error", "done", "decode_error"}
Ended == {"build_error", "transport_error", "decode_error", "done"}

(* The typed response holds every field of the type, read from raw j. *)
Complete(value, j) ==
    /\ DOMAIN value = {"id", "choices", "created", "model", "system_fingerprint",
                       "object", "usage"}
    /\ value.id = j.v.id.v
    /\ value.object = j.v.object.v
    /\ value.system_fingerprint = j.v.system_fingerprint.v
    /\ value.created = j.v.created.v
    /\ value.model \in {"GPT3Turbo", "GPT3TurboInstruct", "GPT4Turbo", "GPT4TurboVersion"}
    /\ DOMAIN value.usage = {"completion_tokens", "prompt_tokens", "total_tokens"}
    /\ Len(value.choices) = Len(j.v.choices.v)
    /\ \A i \in 1..Len(value.choices) :
          DOMAIN value.choices[i] = {"finish_reason", "index", "message"}

CycleOutcome ==
    /\ sends \in {0, 1}
    /\ sends = 1 <=> pc \in AfterSend
    /\ pc \notin Ended => result = <<>>
    /\ pc \notin {"sent", "done", "decode_error"} => raw = <<>>
    /\ pc = "build_error" =>
          result = <<[ok |-> FALSE,
                      error |-> [kind |-> "UninitializedField", field |-> "messages"]]>>
    /\ pc = "transport_error" =>
          /\ Len(result) = 1
          /\ ~result[1].ok
          /\ DOMAIN result[1] = {"ok", "error"}
          /\ result[1].error.kind = "Transport"
    /\ pc = "decode_error" =>
          result = <<[ok |-> FALSE, error |-> [kind |-> "Decode"]]>>
    /\ pc = "done" =>
          /\ Len(result) = 1
          /\ result[1].ok
          /\ DOMAIN result[1] = {"ok", "value"}
          /\ Complete(result[1].value, raw[1])

CycleStep ==
    /\ pc' # pc => <<pc, pc'>> \in CycleOrder
    /\ sends' = IF pc = "encoded" /\ pc' # pc THEN sends + 1 ELSE sends
    /\ pc \notin Ended

(* C9: the steps of a cycle occur in the order build, encode, send,       *)
(* decode; send is invoked at most once and only after build succeeded; a *)
(* build error ends the cycle before any send, a transport error ends it  *)
(* with that error, no second send and no decode, a decode error ends it  *)
(* with no response value; the caller receives a complete typed response  *)
(* or exactly one of the three errors.                                    *)
C9_CycleOrderAndSingleSend == [](CycleOutcome) /\ [][CycleStep]_vars

(* A cycle ended with a typed response holding a choice, after one send. *)
C9_Witness ==
    /\ pc = "done"
    /\ sends = 1
    /\ Len(result[1].value.choices) = 2

-----------------------------------------------------------------------------
(* Claim about the assistant message round trip (SpecRoundTrip).          *)

(* C10: for every assistant message m, decoding the encoding of m         *)
(* succeeds and yields m: a message with no tool calls decodes to one     *)
(* with an empty tool_calls sequence, and tool calls keep their id, type, *)
(* function name and arguments, in order.                                 *)
C10_AssistantRoundTrip ==
    amBack # <<>> =>
        /\ amBack[1].ok
        /\ amBack[1].value = am

====
